---- MODULE Spec2Model ----
(***************************************************************************)
(* Model of the crawl engine of link-scanner (src/scanner.py): the Scanner *)
(* thread (orchestrator), the ThreadPool with its Worker threads, the      *)
(* Task fetch, link classification and the rule filter, driven by the      *)
(* MainPanel handlers that call Scanner.pause() and Scanner.stop().        *)
(***************************************************************************)
EXTENDS Integers, Sequences, FiniteSets, Bags, TLC

\* ------------------------------------------------------------------------
\* Program constants (src/scanner.py, "Global variables")
\* ------------------------------------------------------------------------
IGNORE == 0
CHECK == 1
FOLLOW == 2

TIMEOUT == 0
SKIPPED == 1
COMPLETED == 2

ANY == 0
INTERNAL == 1
EXTERNAL == 2

INCLUDE == FALSE
EXCLUDE == TRUE

ACCEPT_SCHEMES == {"http", "https"}
IGNORE_SCHEMES == {"mailto", "javascript"}

\* ------------------------------------------------------------------------
\* Bounds of the model
\* ------------------------------------------------------------------------
\* how many times the user presses Pause/Resume (MainPanel.pause) in a crawl
MaxPauses == 2

\* ------------------------------------------------------------------------
\* URLs.  A URL string is kept in parsed form, as urllib.parse.urlparse
\* splits it; the string is the concatenation of the five parts.
\* ------------------------------------------------------------------------
U(scheme, netloc, path, query, fragment) ==
    [scheme |-> scheme, netloc |-> netloc, path |-> path,
     query |-> query, fragment |-> fragment]

NoURL == U("", "", "", "", "")

\* urllib.parse.urldefrag(link)[0]
urldefrag(link) == [link EXCEPT !.fragment = ""]

\* link += '?' + parsed.query : the string already ends with "?" + query
\* (the fragment has been removed), so the query part of the new string is
\* query?query
AppendQuery(link, query) == [link EXCEPT !.query = link.query \o "?" \o query]

\* ------------------------------------------------------------------------
\* The web the crawl runs against: what a HEAD / GET of a URL answers.
\* Servers answer by host and path.  "to" is the Location of a redirect
\* (NoURL when the page does not redirect).
\* ------------------------------------------------------------------------
PageOf(to, status, html, hrefs, headErr, getErr) ==
    [to |-> to, status |-> status, html |-> html, hrefs |-> hrefs,
     headErr |-> headErr, getErr |-> getErr]

Missing == PageOf(NoURL, 404, TRUE, <<>>, FALSE, FALSE)

Web(netloc, path) ==
    CASE netloc = "d" /\ path = "/a" ->
           PageOf(NoURL, 200, TRUE,
                  << U("http", "d", "/b", "", ""),
                     U("mailto", "", "m", "", ""),
                     U("http", "d", "/b", "", "f"),
                     U("http", "e", "/x", "", "") >>, FALSE, FALSE)
      [] netloc = "d" /\ path = "/b" ->
           PageOf(U("http", "e", "/y.pdf", "", ""), 301, FALSE, <<>>, FALSE, FALSE)
      [] netloc = "e" /\ path = "/y.pdf" ->
           PageOf(NoURL, 200, FALSE, <<>>, FALSE, FALSE)
      [] netloc = "e" /\ path = "/x" ->
           PageOf(NoURL, 200, TRUE, << U("http", "e", "/z", "", "") >>, FALSE, FALSE)
      [] netloc = "d" /\ path = "/s" ->
           PageOf(NoURL, 200, TRUE,
                  << U("http", "d", "/t", "", ""),
                     U("http", "d", "/u", "q", ""),
                     U("ftp", "d", "/v", "", ""),
                     U("http", "d", "/k", "", "") >>, FALSE, FALSE)
      [] netloc = "d" /\ path = "/t" ->
           PageOf(U("http", "e", "/w", "", ""), 301, FALSE, <<>>, FALSE, FALSE)
      [] netloc = "e" /\ path = "/w" ->
           PageOf(NoURL, 200, TRUE,
                  << U("http", "d", "/s", "", ""),
                     U("http", "e", "/n", "", ""),
                     U("http", "d", "/u", "q", "") >>, FALSE, FALSE)
      [] netloc = "d" /\ path = "/u" ->
           PageOf(NoURL, 200, TRUE, <<>>, FALSE, FALSE)
      [] netloc = "d" /\ path = "/k" ->
           PageOf(NoURL, 200, TRUE, <<>>, TRUE, FALSE)
      [] netloc = "d" /\ path = "/h0" ->
           PageOf(NoURL, 200, TRUE,
                  << U("http", "e", "/h1", "", ""),
                     U("http", "e", "/y.pdf", "", "") >>, FALSE, FALSE)
      [] netloc = "e" /\ path = "/h1" ->
           PageOf(NoURL, 200, TRUE, << U("http", "f", "/h2", "", "") >>, FALSE, FALSE)
      [] netloc = "f" /\ path = "/h2" ->
           PageOf(NoURL, 200, TRUE,
                  << U("http", "g", "/h3", "", ""),
                     U("http", "d", "/h4", "", "") >>, FALSE, FALSE)
      [] netloc = "g" /\ path = "/h3" ->
           PageOf(NoURL, 200, TRUE, << U("http", "g", "/h5", "", "") >>, FALSE, FALSE)
      [] netloc = "d" /\ path = "/h4" ->
           PageOf(NoURL, 200, TRUE, <<>>, FALSE, FALSE)
      [] netloc = "d" /\ path = "/p" ->
           PageOf(NoURL, 200, TRUE,
                  << U("http", "d", "/g", "", ""),
                     U("http", "d", "/p", "", ""),
                     U("http", "d", "/p", "", "x"),
                     U("mailto", "", "m", "", ""),
                     U("mailto", "", "m", "s", ""),
                     U("ftp", "d", "/v", "", "") >>, FALSE, FALSE)
      [] netloc = "d" /\ path = "/g" ->
           PageOf(NoURL, 200, TRUE, << U("http", "d", "/g2", "", "") >>, FALSE, TRUE)
      [] OTHER -> Missing

\* requests.head(link, allow_redirects=redirect): final URL, status, whether
\* the Content-Type is one of CONTENT_TYPES, and whether the request raised
\* (requests raises MissingSchema or InvalidSchema for a URL that is not
\* http or https)
Response(link, allow_redirects) ==
    LET p == Web(link.netloc, link.path) IN
    IF p.to # NoURL /\ allow_redirects
    THEN LET q == Web(p.to.netloc, p.to.path) IN
         [url |-> p.to, status |-> q.status, html |-> q.html,
          hrefs |-> q.hrefs, err |-> p.headErr \/ q.headErr, getErr |-> q.getErr]
    ELSE [url |-> link, status |-> p.status, html |-> p.html,
          hrefs |-> p.hrefs, err |-> p.headErr \/ link.scheme \notin ACCEPT_SCHEMES,
          getErr |-> p.getErr]

\* ------------------------------------------------------------------------
\* Task
\* ------------------------------------------------------------------------
\* Task.__init__; "key" records the object's identity: the visited-set
\* entry the task was created for (the seed URL for the seed task)
Task(key, link, source, depth, server, follow) ==
    [key |-> key, link |-> link, source |-> source, depth |-> depth,
     server |-> server, follow |-> follow,
     links |-> <<>>, status |-> 0, error |-> "", redirected |-> FALSE]

NoTask == Task(NoURL, NoURL, NoURL, 0, ANY, FALSE)

\* Task.run; the hrefs of a page whose GET raises are the links appended
\* to self.links before the exception
TaskRun(t, allow_redirects) ==
    LET r == Response(t.link, allow_redirects)
        t1 == [t EXCEPT !.link = r.url, !.status = r.status]
    IN IF r.err THEN [t EXCEPT !.error = "ConnectionError"]
       ELSE IF ~t.follow THEN t1
       ELSE IF r.status >= 400 THEN t1
       ELSE IF ~r.html THEN t1
       ELSE IF r.getErr THEN [t1 EXCEPT !.error = "ConnectionError", !.links = r.hrefs]
       ELSE [t1 EXCEPT !.links = r.hrefs, !.redirected = (t.link # r.url)]

\* ------------------------------------------------------------------------
\* Rule filter
\* ------------------------------------------------------------------------
PdfPaths == {"/y.pdf"}

\* re.search(match, link) on the link string: the patterns of the model are
\* '\.pdf$' (the string ends in .pdf: no query follows the path) and '^http:'
Matches(match, link) ==
    CASE match = "\\.pdf$" -> link.path \in PdfPaths /\ link.query = "" /\ link.fragment = ""
      [] match = "^http:" -> link.scheme = "http"
      [] OTHER -> FALSE

AppliesAlways(scope, server) == TRUE

\* scope == ANY or server == scope: the rule is applicable to the link
Applies(scope, server) == scope = ANY \/ server = scope

RECURSIVE CheckFrom(_, _, _, _)
CheckFrom(rs, i, link, server) ==
    IF i > Len(rs) THEN FALSE
    ELSE LET condition == rs[i][1]
             scope == rs[i][2]
             result == Matches(rs[i][3], link)
         IN IF ~Applies(scope, server) THEN CheckFrom(rs, i + 1, link, server)
            ELSE IF condition = INCLUDE /\ ~result THEN TRUE
            ELSE IF condition = EXCLUDE /\ result THEN TRUE
            ELSE CheckFrom(rs, i + 1, link, server)

RECURSIVE FirstDecides(_, _, _, _)
FirstDecides(rs, i, link, server) ==
    IF i > Len(rs) THEN FALSE
    ELSE IF ~Applies(rs[i][2], server) THEN FirstDecides(rs, i + 1, link, server)
    ELSE (rs[i][1] = EXCLUDE) = Matches(rs[i][3], link)

check_rulesFirstDecides(rs, link, server) == FirstDecides(rs, 1, link, server)

check_rulesNever(rs, link, server) == FALSE

\* Scanner.check_rules (None, the fall-through result, is falsy)
check_rules(rs, link, server) == CheckFrom(rs, 1, link, server)

\* ------------------------------------------------------------------------
\* State
\* ------------------------------------------------------------------------
VARIABLES
    \* Scanner fields set by __init__ from the options, fixed afterwards
    url, domain, depth, redirect, query, external, internal, rules, count,
    \* Scanner
    links,      \* self.links: the visited set
    paused,     \* self.paused: 0 for None, k for the Event made by the k-th pause
    stopped,    \* self.stopped
    opc,        \* where the Scanner thread is in run()
    cur,        \* the task the for loop of run() holds
    idx,        \* position of scan_links in cur.links
    owait,      \* the Event object the Scanner thread waits on
    \* ThreadPool
    todo, done, pending,
    unfinished, \* todo.unfinished_tasks, what todo.join() waits for
    threads,    \* self.threads
    \* Workers
    wpc, wpaused, wtask, wwait,
    \* threading.Event objects that have been set: <<owner, k>>, owner 0 = Scanner
    evset,
    nev,        \* number of Event generations created so far
    \* wx event queue: the ResultEvents posted so far
    posted,
    \* MainPanel
    scanner,    \* self.scanner is not None
    mpaused,    \* self.paused
    mdone,      \* self.done
    npause,     \* number of MainPanel.pause calls so far
    bstop,      \* self.button_stop is enabled
    raised,     \* an exception escaped from a handler of the caller
    \* bookkeeping
    added,      \* keys of the tasks ever given to ThreadPool.add
    taken,      \* per Worker: tasks taken from todo since Worker.pause() last
                \* gave it an Event (counted while that Event is its signal)
    pulled,     \* what held when the Scanner thread pulled cur from done:
                \* the pause Event in force (0 for none) and self.stopped
    checked,    \* the last call of Scanner.check_rules made on its own: its
                \* link, its server and what it returned
    newer       \* the crawl MainPanel.start begins after the first was
                \* stopped: whether it was started, whether self.scanner
                \* is its Scanner, that Scanner's self.stopped, and whether
                \* the first Scanner's Done event has been handled

config == <<url, domain, depth, redirect, query, external, internal, rules, count>>
orch == <<links, opc, cur, idx, owait>>
pool == <<todo, done, pending, unfinished, threads>>
workers == <<wpc, wpaused, wtask, wwait>>
panel == <<scanner, mpaused, mdone, npause, bstop, raised>>
book == <<added, taken, pulled>>
vars == <<config, orch, pool, workers, paused, stopped, evset, nev, posted, panel, book,
          checked, newer>>

Workers == 1..2

\* no second crawl has been started
NoNewer == [started |-> FALSE, scanner |-> FALSE, stopped |-> FALSE, handled |-> FALSE]

\* no call of check_rules on its own has been made
NoCheck == [link |-> NoURL, server |-> ANY, verdict |-> FALSE]

\* ResultEvent; "key" is bookkeeping: the visited-set entry (or seed) the
\* event reports on, NoURL for the Done event
Event(status, link, source, server, error, key) ==
    [status |-> status, link |-> link, source |-> source, server |-> server,
     error |-> error, key |-> key]

\* Scanner.tell
tell(bag, ev) == bag (+) SetToBag({ev})

Seeds == { U("http", "d", "/a", "", ""), U("http", "d", "/s", "", "") }

\* Scanner.__init__ followed by Scanner.start()
InitWith(u, n, d, r, q, ext, int, rs) ==
    /\ url = u
    /\ domain = u.netloc
    /\ depth = d /\ redirect = r /\ query = q
    /\ external = ext /\ internal = int
    /\ rules = rs
    /\ count = n
    /\ links = {u}
    /\ paused = 0 /\ stopped = FALSE
    /\ opc = "start" /\ cur = NoTask /\ idx = 0 /\ owait = 0
    /\ todo = << Task(u, u, NoURL, 0, INTERNAL, TRUE) >>
    /\ done = <<>>
    /\ pending = 1
    /\ unfinished = 1
    /\ threads = <<>>
    /\ wpc = [w \in Workers |-> "new"]
    /\ wpaused = [w \in Workers |-> 0]
    /\ wtask = [w \in Workers |-> NoTask]
    /\ wwait = [w \in Workers |-> 0]
    /\ evset = {}
    /\ nev = 0
    /\ posted = EmptyBag
    /\ scanner = TRUE /\ mpaused = FALSE /\ mdone = FALSE /\ npause = 0
    /\ bstop = TRUE
    /\ raised = FALSE
    /\ added = {u}
    /\ taken = [w \in Workers |-> 0]
    /\ pulled = [paused |-> 0, stopped |-> FALSE]
    /\ checked = NoCheck
    /\ newer = NoNewer

Init ==
    \E u \in Seeds, n \in {1, 2} :
        InitWith(u, n, 1, TRUE, FALSE, CHECK, FOLLOW, <<>>)

\* ------------------------------------------------------------------------
\* Link classification: the body of the for loop of Scanner.scan_links for
\* one link of a task, given the visited set.  The result names the new
\* visited set and what the iteration does: nothing ("drop"), Scanner.skip
\* ("skip", with the event it posts) or yield a Task ("task").
\* ------------------------------------------------------------------------
Dropped(visited) ==
    [links |-> visited, kind |-> "drop", event |-> NoURL, task |-> NoTask]

\* Scanner.skip(link, task)
skip(visited, link, task, key) ==
    [links |-> visited, kind |-> "skip",
     event |-> Event(SKIPPED, link, task.link, task.server, task.error, key),
     task |-> NoTask]

Yield(visited, t) ==
    [links |-> visited, kind |-> "task", event |-> NoURL, task |-> t]

\* if link in self.links
AlreadyScannedNever(key, visited) == FALSE

QueryRejectedNever(parsed) == FALSE

\* parsed.query != '' and not self.query
QueryRejected(parsed) == parsed.query # "" /\ ~query

IgnoredNever(parsed) == FALSE

\* parsed.scheme in IGNORE_SCHEMES, tested for a scheme that is not accepted
Ignored(parsed) == parsed.scheme \in IGNORE_SCHEMES

IsInternalAlways(parsed) == TRUE

\* parsed.netloc == self.domain
IsInternal(parsed) == parsed.netloc = domain

ChildDepthAlwaysDeeper(task, isInternal) == task.depth + 1

\* depth = task.depth, and depth += 1 in the branch of an external link
ChildDepth(task, isInternal) == IF isInternal THEN task.depth ELSE task.depth + 1

TooDeepOneLater(task) == task.depth > depth + 1

\* task.depth > self.depth, tested on the task whose page holds the link
TooDeep(task) == task.depth > depth

AlreadyScanned(key, visited) == key \in visited

ScanLink(task, raw, visited) ==
    LET key == urldefrag(raw)
        parsed == key
        link == IF parsed.query # "" THEN AppendQuery(key, parsed.query) ELSE key
        seen == visited \cup {key}
        isInternal == IsInternal(parsed)
        d == ChildDepth(task, isInternal)
        server == IF isInternal THEN INTERNAL ELSE EXTERNAL
        follow == IF isInternal THEN internal = FOLLOW ELSE external = FOLLOW
    IN IF AlreadyScanned(key, visited) THEN Dropped(visited)
       ELSE IF QueryRejected(parsed) THEN skip(seen, link, task, key)
       ELSE IF parsed.scheme \notin ACCEPT_SCHEMES
            THEN IF ~Ignored(parsed)
                 THEN skip(seen, link, task, key)
                 ELSE Dropped(seen)
       ELSE IF isInternal /\ internal = IGNORE THEN skip(seen, link, task, key)
       ELSE IF ~isInternal /\ (external = IGNORE \/ TooDeep(task))
            THEN skip(seen, link, task, key)
       ELSE IF check_rules(rules, link, server) THEN skip(seen, link, task, key)
       ELSE Yield(seen, Task(key, link, task.link, d, server, follow))

\* ------------------------------------------------------------------------
\* ThreadPool
\* ------------------------------------------------------------------------
\* ThreadPool.pause: every Worker of self.threads gets a fresh Event, the
\* k-th generation
PoolPause(wp, k) ==
    [w \in Workers |-> IF \E i \in 1..Len(threads) : threads[i] = w THEN k ELSE wp[w]]

\* ThreadPool.resume, from position i of self.threads: Worker.resume sets the
\* Worker's Event and clears the field; a Worker whose field is None raises
\* AttributeError (None has no set()), which ends the loop
RECURSIVE PoolResumeFrom(_, _, _)
PoolResumeFrom(i, wp, es) ==
    IF i > Len(threads) THEN [wpaused |-> wp, evset |-> es, raised |-> FALSE]
    ELSE LET w == threads[i] IN
         IF wp[w] = 0 THEN [wpaused |-> wp, evset |-> es, raised |-> TRUE]
         ELSE PoolResumeFrom(i + 1, [wp EXCEPT ![w] = 0], es \cup {<<w, wp[w]>>})

\* ------------------------------------------------------------------------
\* Scanner thread: Scanner.run with ThreadPool.poll_completed_tasks inlined
\* ------------------------------------------------------------------------
\* ThreadPool.start: one iteration of the loop creates and starts a Worker
PoolStart ==
    /\ opc = "start"
    /\ Len(threads) < count
    /\ LET w == Len(threads) + 1 IN
         /\ threads' = Append(threads, w)
         /\ wpc' = [wpc EXCEPT ![w] = "check"]
    /\ UNCHANGED <<config, checked, newer, links, opc, cur, idx, owait, todo, done, pending,
                   unfinished, wpaused, wtask, wwait, paused, stopped, evset,
                   nev, posted, panel, book>>

PoolStarted ==
    /\ opc = "start"
    /\ Len(threads) = count
    /\ opc' = "poll"
    /\ UNCHANGED <<config, checked, newer, links, cur, idx, owait, pool, workers, paused,
                   stopped, evset, nev, posted, panel, book>>

DrainedNotCounted(n) == n

\* poll_completed_tasks: self.pending -= 1, when the generator is resumed
Drained(n) == n - 1

\* poll_completed_tasks: while self.pending > 0
HasPendingOffByOne == pending > 1

HasPending == pending > 0

Poll ==
    /\ opc = "poll"
    /\ opc' = IF HasPending THEN "get" ELSE "join"
    /\ UNCHANGED <<config, checked, newer, links, cur, idx, owait, pool, workers, paused,
                   stopped, evset, nev, posted, panel, book>>

\* wait_for_task: self.done.get(block=False) succeeds (it is retried every
\* 0.1 s while the queue is empty)
WaitForTask ==
    /\ opc = "get"
    /\ done # <<>>
    /\ cur' = Head(done)
    /\ done' = Tail(done)
    /\ opc' = "chk_pause"
    /\ pulled' = [paused |-> paused, stopped |-> stopped]
    /\ UNCHANGED <<config, checked, newer, links, idx, owait, todo, pending, unfinished,
                   threads, workers, paused, stopped, evset, nev, posted,
                   panel, added, taken>>

\* if self.paused is not None
ScannerNeverPaused == FALSE

ScannerIsPaused == paused # 0

CheckPaused ==
    /\ opc = "chk_pause"
    /\ opc' = IF ScannerIsPaused THEN "load_pause" ELSE "chk_stop"
    /\ UNCHANGED <<config, checked, newer, links, cur, idx, owait, pool, workers, paused,
                   stopped, evset, nev, posted, panel, book>>

\* self.paused.wait(): the attribute is read again; None has no wait(), the
\* AttributeError ends the thread
LoadPaused ==
    /\ opc = "load_pause"
    /\ IF paused = 0
       THEN opc' = "dead" /\ owait' = owait
       ELSE opc' = "wait" /\ owait' = paused
    /\ UNCHANGED <<config, checked, newer, links, cur, idx, pool, workers, paused, stopped,
                   evset, nev, posted, panel, book>>

\* Event.wait() returns once the Event is set
Waited ==
    /\ opc = "wait"
    /\ <<0, owait>> \in evset
    /\ opc' = "chk_stop"
    /\ UNCHANGED <<config, checked, newer, links, cur, idx, owait, pool, workers, paused,
                   stopped, evset, nev, posted, panel, book>>

\* if self.stopped: return
ScannerNeverStopped == FALSE

ScannerIsStopped == stopped

CheckStopped ==
    /\ opc = "chk_stop"
    /\ opc' = IF ScannerIsStopped THEN "returned" ELSE "process"
    /\ UNCHANGED <<config, checked, newer, links, cur, idx, owait, pool, workers, paused,
                   stopped, evset, nev, posted, panel, book>>

\* changes server type if domain has changed
Reclassify(task) ==
    IF task.server = INTERNAL /\ task.redirected /\ task.link.netloc # domain
    THEN [task EXCEPT !.server = EXTERNAL]
    ELSE task

\* Scanner.error(task)
ErrorEvent(task) ==
    Event(TIMEOUT, task.link, task.source, task.server, task.error, task.key)

\* self.tell(task.status, task.link, task.source, task.server)
StatusEvent(task) ==
    Event(task.status, task.link, task.source, task.server, "", task.key)

ExpandsExternalPages(task) == task.error = ""

ExpandsFailedTasks(task) == ~(task.server = EXTERNAL /\ external # FOLLOW)

\* whether run() goes on to scan_links after reporting the task
Expands(task) ==
    /\ task.error = ""
    /\ ~(task.server = EXTERNAL /\ external # FOLLOW)

\* run(): reclassification, the task's event, and the decision to scan its
\* links; "continue" resumes the generator, which decrements self.pending
Process ==
    /\ opc = "process"
    /\ LET task == Reclassify(cur) IN
         /\ cur' = task
         /\ posted' = tell(posted, IF task.error # "" THEN ErrorEvent(task)
                                   ELSE StatusEvent(task))
         /\ IF Expands(task)
            THEN opc' = "scan" /\ idx' = 1 /\ pending' = pending
            ELSE opc' = "poll" /\ idx' = idx /\ pending' = Drained(pending)
    /\ UNCHANGED <<config, checked, newer, links, owait, todo, done, unfinished, threads,
                   workers, paused, stopped, evset, nev, panel, book>>

\* ThreadPool.add
PoolAdd(q, t) == Append(q, t)

\* one iteration of "for link in self.scan_links(task): self.pool.add(link)"
Scan ==
    /\ opc = "scan"
    /\ idx <= Len(cur.links)
    /\ LET r == ScanLink(cur, cur.links[idx], links) IN
         /\ links' = r.links
         /\ posted' = IF r.kind = "skip" THEN tell(posted, r.event) ELSE posted
         /\ IF r.kind = "task"
            THEN /\ todo' = PoolAdd(todo, r.task)
                 /\ pending' = pending + 1
                 /\ unfinished' = unfinished + 1
                 /\ added' = added \cup {r.task.key}
            ELSE UNCHANGED <<todo, pending, unfinished, added>>
    /\ idx' = idx + 1
    /\ UNCHANGED <<config, checked, newer, opc, cur, owait, done, threads, workers, paused,
                   stopped, evset, nev, panel, taken, pulled>>

\* scan_links is exhausted: time.sleep(self.delay), then the generator
\* resumes and decrements self.pending
Sleep ==
    /\ opc = "scan"
    /\ idx > Len(cur.links)
    /\ pending' = Drained(pending)
    /\ opc' = "poll"
    /\ UNCHANGED <<config, checked, newer, links, cur, idx, owait, todo, done, unfinished,
                   threads, workers, paused, stopped, evset, nev, posted,
                   panel, book>>

\* self.todo.join()
Join ==
    /\ opc = "join"
    /\ unfinished = 0
    /\ opc' = "done"
    /\ UNCHANGED <<config, checked, newer, links, cur, idx, owait, pool, workers, paused,
                   stopped, evset, nev, posted, panel, book>>

\* Scanner.done()
DoneEvent == Event(COMPLETED, NoURL, NoURL, INTERNAL, "", NoURL)

Done ==
    /\ opc = "done"
    /\ posted' = tell(posted, DoneEvent)
    /\ opc' = "exit"
    /\ UNCHANGED <<config, checked, newer, links, cur, idx, owait, pool, workers, paused,
                   stopped, evset, nev, panel, book>>

Orchestrator ==
    \/ PoolStart \/ PoolStarted \/ Poll \/ WaitForTask \/ CheckPaused
    \/ LoadPaused \/ Waited \/ CheckStopped \/ Process \/ Scan \/ Sleep
    \/ Join \/ Done

\* ------------------------------------------------------------------------
\* Worker threads: Worker.run
\* ------------------------------------------------------------------------
\* if self.paused is not None
WorkerNeverPaused(w) == FALSE

WorkerIsPaused(w) == wpaused[w] # 0

WorkerCheck(w) ==
    /\ wpc[w] = "check"
    /\ wpc' = [wpc EXCEPT ![w] = IF WorkerIsPaused(w) THEN "load" ELSE "get"]
    /\ UNCHANGED <<config, checked, newer, orch, pool, wpaused, wtask, wwait, paused, stopped,
                   evset, nev, posted, panel, book>>

\* self.paused.wait(): the attribute is read again; None has no wait(), the
\* AttributeError ends the thread
WorkerLoad(w) ==
    /\ wpc[w] = "load"
    /\ IF wpaused[w] = 0
       THEN wpc' = [wpc EXCEPT ![w] = "dead"] /\ wwait' = wwait
       ELSE wpc' = [wpc EXCEPT ![w] = "wait"]
            /\ wwait' = [wwait EXCEPT ![w] = wpaused[w]]
    /\ UNCHANGED <<config, checked, newer, orch, pool, wpaused, wtask, paused, stopped,
                   evset, nev, posted, panel, book>>

WorkerWaited(w) ==
    /\ wpc[w] = "wait"
    /\ <<w, wwait[w]>> \in evset
    /\ wpc' = [wpc EXCEPT ![w] = "get"]
    /\ UNCHANGED <<config, checked, newer, orch, pool, wpaused, wtask, wwait, paused, stopped,
                   evset, nev, posted, panel, book>>

QueueGetKeepsHead(q) == q

\* Queue.get: what is left in the queue when its head has been returned
QueueGet(q) == Tail(q)

\* task = self.todo.get()
WorkerGet(w) ==
    /\ wpc[w] = "get"
    /\ todo # <<>>
    /\ wtask' = [wtask EXCEPT ![w] = Head(todo)]
    /\ todo' = QueueGet(todo)
    /\ wpc' = [wpc EXCEPT ![w] = "run"]
    /\ taken' = [taken EXCEPT ![w] = IF wpaused[w] # 0 THEN @ + 1 ELSE 0]
    /\ UNCHANGED <<config, checked, newer, orch, done, pending, unfinished, threads, wpaused,
                   wwait, paused, stopped, evset, nev, posted, panel, added,
                   pulled>>

\* task.run(); self.done.put(task)
WorkerRun(w) ==
    /\ wpc[w] = "run"
    /\ done' = Append(done, TaskRun(wtask[w], redirect))
    /\ wtask' = [wtask EXCEPT ![w] = NoTask]
    /\ wpc' = [wpc EXCEPT ![w] = "ack"]
    /\ UNCHANGED <<config, checked, newer, orch, todo, pending, unfinished, threads, wpaused,
                   wwait, paused, stopped, evset, nev, posted, panel, book>>

\* self.todo.task_done()
WorkerAck(w) ==
    /\ wpc[w] = "ack"
    /\ unfinished' = unfinished - 1
    /\ wpc' = [wpc EXCEPT ![w] = "check"]
    /\ UNCHANGED <<config, checked, newer, orch, todo, done, pending, threads, wpaused, wtask,
                   wwait, paused, stopped, evset, nev, posted, panel, book>>

Worker(w) ==
    \/ WorkerCheck(w) \/ WorkerLoad(w) \/ WorkerWaited(w)
    \/ WorkerGet(w) \/ WorkerRun(w) \/ WorkerAck(w)

\* ------------------------------------------------------------------------
\* The caller: MainPanel handlers, run by the GUI thread
\* ------------------------------------------------------------------------
\* Scanner.pause(): the state it leaves, and whether ThreadPool.resume raised
ScannerPause ==
    IF paused = 0
    THEN [paused |-> nev + 1, wpaused |-> PoolPause(wpaused, nev + 1),
          evset |-> evset, nev |-> nev + 1, raised |-> FALSE]
    ELSE LET r == PoolResumeFrom(1, wpaused, evset \cup {<<0, paused>>}) IN
         [paused |-> 0, wpaused |-> r.wpaused, evset |-> r.evset,
          nev |-> nev, raised |-> r.raised]

\* bookkeeping of "taken": a Worker whose signal is replaced or cleared
\* starts counting afresh
Retaken(wp) == [w \in Workers |-> IF wp[w] # wpaused[w] THEN 0 ELSE taken[w]]

\* MainPanel.pause, reached from MainPanel.enter when a Scanner exists
MainPanelPause ==
    /\ scanner
    /\ npause < MaxPauses
    /\ npause' = npause + 1
    /\ mpaused' = ~mpaused
    /\ LET r == ScannerPause IN
         /\ paused' = r.paused
         /\ wpaused' = r.wpaused
         /\ evset' = r.evset
         /\ nev' = r.nev
         /\ raised' = (raised \/ r.raised)
         /\ taken' = Retaken(r.wpaused)
    /\ UNCHANGED <<config, checked, newer, orch, pool, wpc, wtask, wwait, stopped, posted,
                   scanner, mdone, bstop, added, pulled>>

\* the body of MainPanel.stop: resolves a pending pause, then Scanner.stop()
\* (self.stopped = True; self.pool.pause()) and self.scanner = None.  An
\* exception raised by Scanner.pause() ends the handler there.
PanelStop ==
    LET r == IF mpaused THEN ScannerPause
             ELSE [paused |-> paused, wpaused |-> wpaused, evset |-> evset,
                   nev |-> nev, raised |-> FALSE]
        stops == ~r.raised /\ scanner
        wp == IF stops THEN PoolPause(r.wpaused, r.nev + 1) ELSE r.wpaused
    IN /\ bstop' = FALSE
       /\ taken' = Retaken(wp)
       /\ wpaused' = wp
       /\ nev' = IF stops THEN r.nev + 1 ELSE r.nev
       /\ raised' = (raised \/ r.raised)
       /\ paused' = r.paused
       /\ evset' = r.evset
       /\ IF r.raised
          THEN UNCHANGED <<mpaused, scanner, stopped>>
          ELSE /\ mpaused' = FALSE
               /\ IF scanner
                  THEN stopped' = TRUE /\ scanner' = FALSE
                  ELSE UNCHANGED <<scanner, stopped>>

\* MainPanel.stop, from the Stop button
MainPanelStop ==
    /\ bstop
    /\ PanelStop
    /\ UNCHANGED <<config, checked, newer, orch, pool, wpc, wtask, wwait, posted, mdone,
                   npause, added, pulled>>

\* MainPanel.update for the Done event (status COMPLETED): self.done = True,
\* then self.stop()
MainPanelUpdate ==
    /\ BagIn(DoneEvent, posted)
    /\ ~mdone
    /\ mdone' = TRUE
    /\ PanelStop
    /\ UNCHANGED <<config, checked, newer, orch, pool, wpc, wtask, wwait, posted, npause,
                   added, pulled>>

Next ==
    \/ Orchestrator
    \/ \E w \in Workers : Worker(w)
    \/ MainPanelPause
    \/ MainPanelStop
    \/ MainPanelUpdate

Spec == Init /\ [][Next]_vars

\* The threads of the program are scheduled fairly: the Scanner thread and
\* every Worker thread take a step they remain able to take.
FairSpec ==
    /\ Init /\ [][Next]_vars
    /\ WF_vars(Orchestrator)
    /\ \A w \in Workers : WF_vars(Worker(w))

\* ------------------------------------------------------------------------
\* Crawls under every combination of options, with a caller that neither
\* pauses nor stops: one Worker, and the Scanner thread and the Worker never
\* find a pause Event
\* ------------------------------------------------------------------------
PdfRule == <<EXCLUDE, ANY, "\\.pdf$">>

\* re.compile(r[2]): "(" is a pattern re.compile rejects with re.error
Compiles(match) == match # "("

\* urllib.parse.urlparse(url): raises ValueError for an unbalanced bracket
\* in the netloc, and parses every other string
Parses(u) == u.netloc # "["

\* whether Scanner.__init__ returns: the rules are compiled and the seed
\* is parsed before the ThreadPool is made
Constructs(u, rs) ==
    /\ \A i \in 1..Len(rs) : Compiles(rs[i][3])
    /\ Parses(u)

\* MainPanel.start when Scanner.__init__ raises: self.scanner is never
\* assigned, no ThreadPool and no thread exist
InitFailed(u, d, r, q, ext, int, rs) ==
    /\ url = u
    /\ domain = ""
    /\ depth = d /\ redirect = r /\ query = q
    /\ external = ext /\ internal = int
    /\ rules = rs
    /\ count = 1
    /\ links = {}
    /\ paused = 0 /\ stopped = FALSE
    /\ opc = "none" /\ cur = NoTask /\ idx = 0 /\ owait = 0
    /\ todo = <<>>
    /\ done = <<>>
    /\ pending = 0
    /\ unfinished = 0
    /\ threads = <<>>
    /\ wpc = [w \in Workers |-> "new"]
    /\ wpaused = [w \in Workers |-> 0]
    /\ wtask = [w \in Workers |-> NoTask]
    /\ wwait = [w \in Workers |-> 0]
    /\ evset = {}
    /\ nev = 0
    /\ posted = EmptyBag
    /\ scanner = FALSE /\ mpaused = FALSE /\ mdone = FALSE /\ npause = 0
    /\ bstop = TRUE
    /\ raised = FALSE
    /\ added = {}
    /\ taken = [w \in Workers |-> 0]
    /\ pulled = [paused |-> 0, stopped |-> FALSE]
    /\ checked = NoCheck
    /\ newer = NoNewer

PolicySeeds ==
    Seeds \cup { U("http", "d", "/h0", "", ""),
                 U("http", "d", "/p", "", "top"),
                 U("http", "e", "/y.pdf", "", ""),
                 U("", "", "example", "", ""),
                 U("http", "[", "", "", "") }

PolicyRules == { <<>>, << PdfRule >>, << <<EXCLUDE, ANY, "(">> >> }

PolicyInit ==
    \E u \in PolicySeeds, d \in {1, 2}, r \in BOOLEAN, q \in BOOLEAN,
       ext \in {IGNORE, CHECK, FOLLOW}, int \in {IGNORE, CHECK, FOLLOW},
       rs \in PolicyRules :
        IF Constructs(u, rs)
        THEN InitWith(u, 1, d, r, q, ext, int, rs)
        ELSE InitFailed(u, d, r, q, ext, int, rs)

PolicyNext ==
    \/ PoolStart \/ PoolStarted \/ Poll \/ WaitForTask \/ CheckPaused
    \/ CheckStopped \/ Process \/ Scan \/ Sleep \/ Join \/ Done
    \/ \E w \in Workers : \/ WorkerCheck(w) \/ WorkerGet(w)
                           \/ WorkerRun(w) \/ WorkerAck(w)
    \/ MainPanelUpdate

PolicySpec == PolicyInit /\ [][PolicyNext]_vars

\* ------------------------------------------------------------------------
\* Scanner.check_rules on its own: a Scanner constructed with any rule list
\* of up to MaxRules rules is asked about any link and server
\* ------------------------------------------------------------------------
MaxRules == 2

RuleSet ==
    {INCLUDE, EXCLUDE} \X {ANY, INTERNAL, EXTERNAL} \X {"\\.pdf$", "^http:"}

RuleLists == UNION {[1..n -> RuleSet] : n \in 0..MaxRules}

RuleLinks ==
    { U("http", "e", "/y.pdf", "", ""), U("http", "d", "/a", "", ""),
      U("ftp", "d", "/y.pdf", "", ""), U("ftp", "d", "/v", "", "") }

RuleInit ==
    \E rs \in RuleLists :
        InitWith(U("http", "d", "/a", "", ""), 1, 1, TRUE, FALSE, CHECK, FOLLOW, rs)

CheckRules ==
    /\ \E link \in RuleLinks, server \in {INTERNAL, EXTERNAL} :
          checked' = [link |-> link, server |-> server,
                      verdict |-> check_rules(rules, link, server)]
    /\ UNCHANGED <<config, newer, orch, pool, workers, paused, stopped, evset, nev,
                   posted, panel, book>>

RuleNext == CheckRules

RuleSpec == RuleInit /\ [][RuleNext]_vars

\* ------------------------------------------------------------------------
\* A second crawl: the caller stops the crawl and starts another while the
\* threads of the first Scanner are still running.  The second Scanner's
\* own threads are left at their start: what is followed is what the first
\* Scanner's events do to the second crawl.
\* ------------------------------------------------------------------------
\* MainPanel.stop from the Stop button, on the first crawl
MainPanelStopFirst == ~newer.started /\ MainPanelStop

\* MainPanel.update for the Done event, handled during the first crawl
MainPanelUpdateFirst == ~newer.started /\ MainPanelUpdate

\* MainPanel.enter when self.scanner is None after a stop: MainPanel.start
\* sets self.done = False, enables the Stop button and makes and starts a
\* new Scanner
MainPanelRestart ==
    /\ ~scanner /\ stopped /\ ~raised
    /\ ~newer.started
    /\ newer' = [started |-> TRUE, scanner |-> TRUE, stopped |-> FALSE,
                 handled |-> mdone]
    /\ mdone' = FALSE
    /\ bstop' = TRUE
    /\ UNCHANGED <<config, checked, orch, pool, workers, paused, stopped, evset,
                   nev, posted, scanner, mpaused, npause, raised, book>>

\* MainPanel.update for the first Scanner's Done event, handled after the
\* second crawl was started: self.done = True, then self.stop(), which
\* calls stop() on the Scanner self.scanner holds and sets it to None
MainPanelUpdateNewer ==
    /\ newer.started /\ ~newer.handled
    /\ BagIn(DoneEvent, posted)
    /\ mdone' = TRUE
    /\ bstop' = FALSE
    /\ newer' = [newer EXCEPT !.handled = TRUE,
                              !.stopped = @ \/ newer.scanner,
                              !.scanner = FALSE]
    /\ UNCHANGED <<config, checked, orch, pool, workers, paused, stopped, evset,
                   nev, posted, scanner, mpaused, npause, raised, book>>

RestartNext ==
    \/ PoolStart \/ PoolStarted \/ Poll \/ WaitForTask \/ CheckPaused
    \/ CheckStopped \/ Process \/ Scan \/ Sleep \/ Join \/ Done
    \/ \E w \in Workers : \/ WorkerCheck(w) \/ WorkerLoad(w) \/ WorkerGet(w)
                           \/ WorkerRun(w) \/ WorkerAck(w)
    \/ MainPanelStopFirst
    \/ MainPanelUpdateFirst
    \/ MainPanelRestart
    \/ MainPanelUpdateNewer

RestartSpec == Init /\ [][RestartNext]_vars

\* ------------------------------------------------------------------------
\* Properties
\* ------------------------------------------------------------------------
RECURSIVE SumCopies(_)
SumCopies(S) ==
    IF S = {} THEN 0
    ELSE LET e == CHOOSE x \in S : TRUE
         IN CopiesIn(e, posted) + SumCopies(S \ {e})

\* number of ResultEvents posted that report on visited-set entry l
EventsFor(l) == SumCopies({e \in BagToSet(posted) : e.key = l})

\* the events that report a task: Completed (an HTTP status) or Timeout/Error
TaskEvents == {e \in BagToSet(posted) : e.status \notin {SKIPPED, COMPLETED}}

TaskEventsFor(k) == SumCopies({e \in TaskEvents : e.key = k})

DoneCount == CopiesIn(DoneEvent, posted)

\* the links scan_links has discovered: the visited set but the seed
Discovered == links \ {url}

\* an unstopped crawl has run to its end
Crawled == DoneCount > 0 /\ ~stopped

\* scan_links drops the link without an event: an ignored scheme, reached
\* only when the query-string check has not skipped the link before
SilentlyDropped(l) ==
    l.scheme \in IGNORE_SCHEMES /\ ~(l.query # "" /\ ~query)

\* C1 (as stated): in a crawl that is never stopped, every link discovered by
\* scan_links has exactly one ResultEvent over the whole crawl.
C1_ExactlyOneEventPerLink ==
    Crawled => \A l \in Discovered : EventsFor(l) = 1

\* C1 (amended): no discovered link ever has two ResultEvents, and when an
\* unstopped crawl ends every discovered link has exactly one, except the
\* links scan_links drops for their ignored scheme, which have none.
C1_OneEventPerReportedLink ==
    /\ \A l \in Discovered : EventsFor(l) <= 1
    /\ Crawled => \A l \in Discovered :
                     EventsFor(l) = IF SilentlyDropped(l) THEN 0 ELSE 1

\* C1 witness: an unstopped crawl has ended that found a mailto link and
\* reported other links
C1_Witness ==
    /\ Crawled
    /\ \E l \in Discovered : SilentlyDropped(l) /\ EventsFor(l) = 0
    /\ \E l \in Discovered : l.fragment = "" /\ EventsFor(l) = 1
    /\ Cardinality(Discovered) >= 3

\* C2: at most one Done event is ever emitted, and none is emitted once
\* stop() has been called.
C2_NoDoneAfterStop ==
    /\ [](DoneCount <= 1)
    /\ [][stopped => DoneCount' = DoneCount]_vars

\* C3: whenever Done has been emitted, the pending and the completed queue
\* are empty, no task is in flight, and every task ever added to the pool
\* has exactly one Completed or Timeout/Error event, so that those events
\* are as many as the tasks added.
C3_DoneMeansAllReported ==
    DoneCount > 0 =>
        /\ todo = <<>>
        /\ done = <<>>
        /\ \A w \in Workers : wtask[w] = NoTask
        /\ \A k \in added : TaskEventsFor(k) = 1
        /\ SumCopies(TaskEvents) = Cardinality(added)

\* C3 witness: Done was emitted after three tasks, one of which failed
C3_Witness ==
    /\ DoneCount > 0
    /\ Cardinality(added) >= 3
    /\ \E e \in TaskEvents : e.status = TIMEOUT
    /\ \E e \in TaskEvents : e.status = 200

\* C4: if stop() is never called and every pause is followed by a resume,
\* the crawl eventually emits Done (under FairSpec).
C4_EventuallyDone ==
    ([]<>(paused = 0) /\ []~stopped) => <>(DoneCount > 0)

\* The crawl of the same seed that is never paused nor stopped, run
\* sequentially: tasks are fetched and processed in the order they were
\* added.  RefScan is the for loop of run() over scan_links.
RECURSIVE RefScan(_, _, _, _, _)
RefScan(task, i, visited, tasks, evs) ==
    IF i > Len(task.links)
    THEN [links |-> visited, tasks |-> tasks, events |-> evs]
    ELSE LET r == ScanLink(task, task.links[i], visited) IN
         RefScan(task, i + 1, r.links,
                 IF r.kind = "task" THEN Append(tasks, r.task) ELSE tasks,
                 IF r.kind = "skip" THEN tell(evs, r.event) ELSE evs)

RECURSIVE RefCrawl(_, _, _)
RefCrawl(queue, visited, evs) ==
    IF queue = <<>> THEN tell(evs, DoneEvent)
    ELSE LET t == Reclassify(TaskRun(Head(queue), redirect))
             ev == IF t.error # "" THEN ErrorEvent(t) ELSE StatusEvent(t)
             r == IF Expands(t)
                  THEN RefScan(t, 1, visited, <<>>, EmptyBag)
                  ELSE [links |-> visited, tasks |-> <<>>, events |-> EmptyBag]
         IN RefCrawl(Tail(queue) \o r.tasks, r.links, tell(evs, ev) (+) r.events)

UnpausedEvents ==
    RefCrawl(<< Task(url, url, NoURL, 0, INTERNAL, TRUE) >>, {url}, EmptyBag)

\* no thread of the crawl can take a step any more
AtRest == ~ENABLED (Orchestrator \/ \E w \in Workers : Worker(w))

\* C5: a crawl that was paused and resumed, and not stopped, ends with the
\* multiset of events of the same crawl never paused: when it has come to
\* rest with no pause in force, it has emitted exactly those events.
C5_NoEventLostByPause ==
    (~stopped /\ paused = 0 /\ AtRest) => posted = UnpausedEvents

\* ThreadPool.pause() has been called, by Scanner.pause() or Scanner.stop(),
\* and ThreadPool.resume() has not been called since
PoolPaused == paused # 0 \/ stopped

\* C6 (as stated): between the return of ThreadPool.pause() and the call of
\* ThreadPool.resume() no Worker takes a task from the pending queue.
C6_NoTaskTakenWhilePaused ==
    [][PoolPaused => \A w \in Workers : ~(wpc[w] = "get" /\ wpc'[w] = "run")]_vars

\* C6 (amended): while the Event that ThreadPool.pause() gave a Worker is its
\* pause signal, the Worker takes at most one task from the pending queue
\* (the one it takes if it had passed its pause check already); and a task
\* in flight stays with its Worker until it is pushed, run, to the completed
\* queue.
C6_AtMostOneTaskWhilePaused ==
    /\ [](\A w \in Workers : wpaused[w] # 0 => taken[w] <= 1)
    /\ [][\A w \in Workers : wpc[w] = "run" =>
            \/ wpc'[w] = "run" /\ wtask'[w] = wtask[w]
            \/ /\ wpc'[w] = "ack"
               /\ done' = Append(done, TaskRun(wtask[w], redirect))]_vars

\* C6 witness: a Worker took one task after the pause and now waits at its
\* pause check while tasks are pending
C6_Witness ==
    \E w \in Workers :
        /\ paused # 0
        /\ wpaused[w] = paused
        /\ taken[w] = 1
        /\ wpc[w] = "wait"
        /\ todo # <<>>

\* C7 (as stated): while the crawl is paused the Scanner thread emits no
\* ResultEvent and adds no task to the pending queue.
C7_SilentWhilePaused ==
    [][(paused # 0 /\ paused' = paused) =>
           (posted' = posted /\ Len(todo') <= Len(todo))]_vars

\* C7 (amended): a completed task the Scanner thread pulled while a pause was
\* in force is held: it is processed (its events emitted, its links' tasks
\* added) only once that pause has been resumed.  The task whose pause check
\* had passed before pause() is still processed during the pause.
C7_PulledWhilePausedIsHeld ==
    opc \in {"process", "scan"} => (pulled.paused = 0 \/ paused # pulled.paused)

\* C7 witness: a task pulled during a pause is being processed after the
\* resume
C7_Witness ==
    /\ opc = "scan"
    /\ pulled.paused # 0
    /\ paused = 0
    /\ idx > 1

\* C8: a completed task the Scanner thread pulled after stop() was requested
\* is discarded: the thread does not go on to process it, no event reports
\* it and no task found on it is in the pending queue.
C8_DiscardedAfterStop ==
    pulled.stopped =>
        /\ opc \notin {"process", "scan"}
        /\ EventsFor(cur.key) = 0
        /\ \A i \in 1..Len(todo) : todo[i].source # cur.link

\* C8 witness: the Scanner thread returned on a task, with links, that it
\* pulled after stop()
C8_Witness ==
    /\ pulled.stopped
    /\ opc = "returned"
    /\ cur.links # <<>>

\* the Scanner thread has left run()
Exited == opc \in {"exit", "returned", "dead"}

\* C9: after stop() is called the Scanner thread eventually leaves run()
\* (under FairSpec).
C9_StopEndsScannerThread == stopped ~> Exited

\* C10: every task created with origin Internal whose HEAD response resolves
\* to a final URL on another domain is reported with origin External.
C10_RedirectReportedExternal ==
    \A e \in TaskEvents :
        (e.key.netloc = domain /\ e.link.netloc # domain) => e.server = EXTERNAL

\* every Task object alive: queued, held by a Worker, completed, or held by
\* the Scanner thread
AllTasks ==
    {todo[i] : i \in 1..Len(todo)} \cup {done[i] : i \in 1..Len(done)}
    \cup {wtask[w] : w \in Workers} \cup {cur}

\* C11: when the external policy is not Follow, the links of a task that is
\* reported External (created External, or reclassified after a redirect
\* left the crawl's domain) are never scanned: the Scanner thread never
\* enters scan_links for it, and no event and no task names it as source.
C11_ExternalPageNotExpanded ==
    external # FOLLOW =>
        /\ opc = "scan" => cur.server # EXTERNAL
        /\ \A e \in TaskEvents : e.server = EXTERNAL =>
              /\ \A f \in BagToSet(posted) : f.source # e.link
              /\ \A t \in AllTasks : t.source # e.link

\* C11 happens: a task redirected off the domain has fetched links, was
\* reclassified External and reported, and the generator went on
C11_Witness ==
    /\ external # FOLLOW
    /\ opc = "poll"
    /\ cur.server = EXTERNAL /\ cur.redirected /\ cur.key.netloc = domain
    /\ Len(cur.links) > 0
    /\ TaskEventsFor(cur.key) = 1

\* the links on the page a fetch of visited-set entry u returns
Hrefs(u) ==
    LET r == Response(u, redirect)
    IN {urldefrag(r.hrefs[i]) : i \in 1..Len(r.hrefs)}

\* S and every link reachable from S through links to the crawl's domain
RECURSIVE SameSite(_)
SameSite(S) ==
    LET T == S \cup {l \in UNION {Hrefs(u) : u \in S} : l.netloc = domain}
    IN IF T = S THEN S ELSE SameSite(T)

\* the links reachable from the seed through at most n links that leave the
\* crawl's domain (external hops)
RECURSIVE WithinHops(_)
WithinHops(n) ==
    IF n = 0 THEN SameSite({url, urldefrag(url)})
    ELSE LET W == WithinHops(n - 1)
         IN SameSite(W \cup UNION {Hrefs(u) : u \in W})

\* C12 (as stated): a link reachable from the seed only through more than
\* max depth external hops gets no task, and every event reporting it is
\* Skipped.
C12_BeyondDepthSkipped ==
    LET near == WithinHops(depth) IN
    /\ \A t \in AllTasks \ {NoTask} : t.key \in near
    /\ \A e \in BagToSet(posted) \ {DoneEvent} :
          e.key \notin near => e.status = SKIPPED

\* C12 (amended): the same one hop later: no task and only Skipped events
\* for a link reachable only through more than max depth + 1 external hops.
C12_BeyondDepthPlusOneSkipped ==
    LET near == WithinHops(depth + 1) IN
    /\ \A t \in AllTasks \ {NoTask} : t.key \in near
    /\ \A e \in BagToSet(posted) \ {DoneEvent} :
          e.key \notin near => e.status = SKIPPED

\* C12 happens: a link max depth + 1 hops away was fetched and a link found
\* on its page, one hop further, was reported Skipped
C12_Witness ==
    /\ \E e \in TaskEvents : e.key \notin WithinHops(depth)
    /\ \E e \in BagToSet(posted) :
          e.status = SKIPPED /\ e.key \notin WithinHops(depth + 1)

\* the events that report the seed's resource: their visited-set entry is
\* the seed URL up to its fragment
SeedEvents ==
    {e \in BagToSet(posted) \ {DoneEvent} : urldefrag(e.key) = urldefrag(url)}

\* C13: the seed counts as visited in its fragment-stripped form: a
\* discovered link that differs from the seed only by its fragment gets no
\* task, and the seed's resource yields at most one event.
C13_SeedResourceReportedOnce ==
    /\ \A t \in AllTasks \ {NoTask} :
          urldefrag(t.key) = urldefrag(url) => t.key = url
    /\ SumCopies(SeedEvents) <= 1

\* the rule applies to links of this origin: its scope is Any or the origin
InScope(rule, origin) == rule[2] = ANY \/ rule[2] = origin

\* the rule, taken alone, rejects the link: an Include rule the link does
\* not match or an Exclude rule it matches
RejectedBy(rule, link) ==
    \/ rule[1] = INCLUDE /\ ~Matches(rule[3], link)
    \/ rule[1] = EXCLUDE /\ Matches(rule[3], link)

OnlyInScope(rs, origin) == SelectSeq(rs, LAMBDA r : InScope(r, origin))

\* C14: check_rules(link, origin) rejects exactly when some rule in scope
\* rejects the link, and the rules of the other scope do not influence the
\* verdict: it is the verdict of the list without them.
C14_RejectsIffSomeRuleInScopeRejects ==
    checked # NoCheck =>
        /\ checked.verdict =
              (\E i \in 1..Len(rules) :
                  InScope(rules[i], checked.server) /\ RejectedBy(rules[i], checked.link))
        /\ checked.verdict =
              check_rules(OnlyInScope(rules, checked.server), checked.link, checked.server)

\* C14 happens: a rule of the other scope that would reject the link comes
\* first, and the link is rejected by the rule in scope that follows it
C14_Witness ==
    /\ checked # NoCheck
    /\ Len(rules) = 2
    /\ ~InScope(rules[1], checked.server) /\ RejectedBy(rules[1], checked.link)
    /\ InScope(rules[2], checked.server)
    /\ checked.verdict

\* the rule list rs in the order given by the permutation p of its indices
Reordered(rs, p) == [i \in 1..Len(rs) |-> rs[p[i]]]

\* C15 (as stated): rule order is significant: some link, origin and two
\* orders of the same rules get different verdicts from check_rules.
C15_OrderSignificant ==
    \E rs \in RuleLists, link \in RuleLinks, origin \in {INTERNAL, EXTERNAL} :
        \E p \in Permutations(1..Len(rs)) :
            check_rules(Reordered(rs, p), link, origin) # check_rules(rs, link, origin)

\* C15 (amended): rule order is not significant: every order of the rules
\* gives the verdict check_rules returned.
C15_OrderNotSignificant ==
    checked # NoCheck =>
        \A p \in Permutations(1..Len(rules)) :
            check_rules(Reordered(rules, p), checked.link, checked.server) = checked.verdict

\* C15 happens: two different rules in scope, the first accepts the link and
\* the second rejects it
C15_Witness ==
    /\ checked # NoCheck
    /\ Len(rules) = 2
    /\ InScope(rules[1], checked.server) /\ ~RejectedBy(rules[1], checked.link)
    /\ InScope(rules[2], checked.server) /\ RejectedBy(rules[2], checked.link)
    /\ checked.verdict

\* the link string ends in .pdf
EndsPdf(link) == Matches(PdfRule[3], link)

\* C16 (as stated): with the rule {Exclude, Any, '\.pdf$'} every event for a
\* link ending in .pdf is Skipped, and no Worker is given such a link.
C16_PdfAlwaysSkipped ==
    rules = << PdfRule >> =>
        /\ \A e \in BagToSet(posted) \ {DoneEvent} :
              EndsPdf(e.link) => e.status = SKIPPED
        /\ \A w \in Workers : ~EndsPdf(wtask[w].link)

\* C16 (amended): the same of the links scan_links discovers, as it finds
\* them on a page: none gets a task and every event reporting one is
\* Skipped. The seed and the final URL of a redirect are not filtered.
C16_DiscoveredPdfSkipped ==
    rules = << PdfRule >> =>
        /\ \A e \in BagToSet(posted) \ {DoneEvent} :
              (e.key # url /\ EndsPdf(e.key)) => e.status = SKIPPED
        /\ \A t \in AllTasks \ {NoTask} : t.key # url => ~EndsPdf(t.key)

\* C16 happens: a discovered link ending in .pdf was reported Skipped by
\* the rule, under policies that would have dispatched it
C16_Witness ==
    /\ rules = << PdfRule >>
    /\ external # IGNORE
    /\ \E e \in BagToSet(posted) :
          e.status = SKIPPED /\ EndsPdf(e.key) /\ e.key.netloc # domain

\* no Worker thread was launched, no task was taken from the queue and no
\* ResultEvent was posted
NothingStarted ==
    /\ threads = <<>>
    /\ \A w \in Workers : wpc[w] = "new" /\ wtask[w] = NoTask
    /\ posted = EmptyBag

\* a rule pattern re.compile rejects
InvalidRule == \E i \in 1..Len(rules) : ~Compiles(rules[i][3])

\* C17 (as stated): a configuration error at crawl start, a seed that is
\* not a parseable http or https URL or an invalid rule pattern, prevents
\* the pool from starting: no executor, no task dispatched, no event.
C17_ConfigErrorPreventsStart ==
    (InvalidRule \/ ~Parses(url) \/ url.scheme \notin ACCEPT_SCHEMES)
        => NothingStarted

\* The part of C17 that holds: an error Scanner.__init__ raises, an invalid
\* rule pattern or a seed urlparse rejects, prevents the start; no Scanner
\* and no queued task exist then.
InitErrorPreventsStart ==
    (InvalidRule \/ ~Parses(url))
        => NothingStarted /\ ~scanner /\ todo = <<>> /\ done = <<>>

\* the Timeout/Error events
FailureEvents == {e \in BagToSet(posted) : e.status = TIMEOUT}

\* C18: a failed fetch does not abort the crawl. The failure is kept in
\* task.error and the Worker that ran the task goes on (to task_done); the
\* task is reported by Timeout/Error events only, never twice, and exactly
\* once when the crawl is done; the Scanner thread never scans its links,
\* so that no event and no task names it as source; and the crawl ends
\* with every task ever added reported exactly once.
C18_FailedFetchDoesNotAbort ==
    /\ [](/\ \A t \in AllTasks : t.error # "" =>
                /\ \A e \in TaskEvents : e.key = t.key => e.status = TIMEOUT
                /\ TaskEventsFor(t.key) <= 1
          /\ \A e \in BagToSet(posted) : (e.status = TIMEOUT) = (e.error # "")
          /\ opc = "scan" => cur.error = ""
          /\ \A e \in FailureEvents :
                /\ \A f \in BagToSet(posted) : f.source # e.link
                /\ \A t \in AllTasks : t.source # e.link
          /\ DoneCount > 0 => \A k \in added : TaskEventsFor(k) = 1)
    /\ [][\A w \in Workers :
            wpc[w] = "run" /\ wpc'[w] # "run" =>
                /\ wpc'[w] = "ack"
                /\ done' = Append(done, TaskRun(wtask[w], redirect))]_vars

\* C18 happens: a fetch failed after links were taken from the page, its
\* Timeout/Error event was posted, a link found on the same page was
\* fetched and reported, and the crawl is done
C18_Witness ==
    /\ DoneCount > 0
    /\ \E e \in FailureEvents :
          /\ Len(Response(e.key, redirect).hrefs) > 0
          /\ \E f \in TaskEvents :
                f.status # TIMEOUT /\ f.key # e.key /\ f.source = e.source

\* Task.run has been called on the task: it left a status or an error
HasRun(t) == t.status # 0 \/ t.error # ""

\* number of entries of queue q holding the task made for k
InQueue(q, k) == Cardinality({i \in 1..Len(q) : q[i].key = k})

\* number of places holding the task made for k: the todo queue, a Worker,
\* the done queue, and the Scanner thread (which holds it, or has reported
\* it)
Places(k) ==
    InQueue(todo, k) + Cardinality({w \in Workers : wtask[w].key = k})
    + InQueue(done, k)
    + (IF cur.key = k \/ \E e \in TaskEvents : e.key = k THEN 1 ELSE 0)

\* C19: with one or two Workers, every task ever added is in exactly one
\* place: waiting in todo or held by one Worker, both before Task.run, or
\* once in done or with the Scanner thread, both after it; it is reported
\* at most once and is not in todo again after that.
C19_TaskExecutedOnce ==
    /\ \A k \in added : Places(k) = 1 /\ TaskEventsFor(k) <= 1
    /\ \A i \in 1..Len(todo) : ~HasRun(todo[i])
    /\ \A w \in Workers : ~HasRun(wtask[w])
    /\ \A i \in 1..Len(done) : HasRun(done[i])
    /\ HasRun(cur) \/ cur = NoTask

\* C19 happens: two Workers each hold a task taken from todo while a third
\* task has been reported
C19_Witness ==
    /\ wpc[1] = "run" /\ wpc[2] = "run"
    /\ wtask[1].key # wtask[2].key
    /\ \E k \in added : TaskEventsFor(k) = 1

\* the state of the crawl's state machine once the pool exists
Phase ==
    IF DoneCount > 0 THEN "Done"
    ELSE IF stopped THEN "Stopped"
    ELSE IF paused # 0 THEN "Paused"
    ELSE "Running"

\* the moves of the state machine; MainPanel.stop on a paused crawl resumes
\* it and stops it in one handler
PhaseMoves ==
    { <<"Running", "Paused">>, <<"Paused", "Running">>, <<"Running", "Stopped">>,
      <<"Paused", "Stopped">>, <<"Running", "Done">> }

\* C20: the lifecycle only moves Running <-> Paused, Running -> Stopped and
\* Running -> Done, so that Done is not reached from Paused or Stopped; and
\* once Stopped or Done no event is posted, no task is added to the todo
\* queue and no Worker takes one.
C20_Lifecycle ==
    [][/\ Phase' # Phase => <<Phase, Phase'>> \in PhaseMoves
       /\ Phase \in {"Stopped", "Done"} => posted' = posted /\ todo' = todo]_vars

\* C21: when query strings are not followed, every discovered link with a
\* query string has exactly one event, a Skipped one, from the step that
\* discovers it on, and no task is ever created for it, however often the
\* link is found again.
C21_QueryLinksSkipped ==
    ~query =>
        /\ \A k \in Discovered : k.query # "" =>
              /\ EventsFor(k) = 1
              /\ \A e \in BagToSet(posted) : e.key = k => e.status = SKIPPED
        /\ \A t \in AllTasks \ {NoTask} : t.key # url => t.key.query = ""

\* C21 happens: scan_links has passed a link with a query string that was
\* reported Skipped when it was found on an earlier page
C21_Witness ==
    /\ ~query
    /\ opc = "scan"
    /\ \E i \in 1..Len(cur.links) :
          /\ i < idx
          /\ urldefrag(cur.links[i]).query # ""
          /\ \E e \in BagToSet(posted) :
                /\ e.key = urldefrag(cur.links[i])
                /\ e.status = SKIPPED
                /\ e.source # cur.link

Unpulled ==
    {t \in {todo[i] : i \in 1..Len(todo)} \cup {done[i] : i \in 1..Len(done)}
            \cup {wtask[w] : w \in Workers} : t # NoTask /\ t.key # url}

\* the policy configured for the origin of a link
PolicyFor(link) == IF link.netloc = domain THEN internal ELSE external

\* C23: a task made by link discovery is Internal iff its link's domain is
\* the crawl's domain and External otherwise, its follow flag says whether
\* the policy of that origin is Follow, and that policy is not Ignore; an
\* http(s) link whose origin's policy is Ignore has one event, Skipped.
C23_OriginAndFollowOfTasks ==
    /\ \A t \in Unpulled :
          /\ t.server = (IF t.key.netloc = domain THEN INTERNAL ELSE EXTERNAL)
          /\ t.follow = (PolicyFor(t.key) = FOLLOW)
          /\ PolicyFor(t.key) # IGNORE
    /\ \A k \in Discovered :
          (k.scheme \in ACCEPT_SCHEMES /\ PolicyFor(k) = IGNORE) =>
              /\ k \notin added
              /\ EventsFor(k) = 1
              /\ \A e \in BagToSet(posted) : e.key = k => e.status = SKIPPED

\* C23 happens: internal links are ignored and external links followed; an
\* internal link was reported Skipped and an external task, to be
\* followed, waits in the pool
C23_Witness ==
    /\ internal = IGNORE /\ external = FOLLOW
    /\ \E k \in Discovered :
          k.scheme \in ACCEPT_SCHEMES /\ k.netloc = domain /\ EventsFor(k) = 1
    /\ \E t \in Unpulled : t.server = EXTERNAL /\ t.follow

\* C24: every Skipped event carries the origin of the skipped link itself:
\* Internal if the link's domain is the crawl's domain, External otherwise,
\* whatever the origin of the page the link was found on.
C24_SkippedEventOrigin ==
    \A e \in BagToSet(posted) : e.status = SKIPPED =>
        e.server = (IF e.key.netloc = domain THEN INTERNAL ELSE EXTERNAL)

\* C25: the link of a task made by scan_links, as long as no Worker has run
\* it, and the link of every Skipped event are the fragment-stripped link
\* that was added to the visited set, with or without a query string.
C25_LinkIsVisitedEntry ==
    /\ \A i \in 1..Len(todo) : todo[i].link = todo[i].key
    /\ \A e \in BagToSet(posted) : e.status = SKIPPED => e.link = e.key

\* C26: no task has a depth greater than max depth + 1. When scan_links
\* makes a task for a link of the task it scans, the new task has that
\* task's depth for a link to the crawl's domain and that depth + 1
\* otherwise; and when the scanned task's depth exceeds max depth, a newly
\* discovered http(s) link off the crawl's domain gets a Skipped event and
\* no task.
C26_DepthOfTasks ==
    /\ [](\A t \in AllTasks : t.depth <= depth + 1)
    /\ [][(opc = "scan" /\ idx' = idx + 1) =>
            LET key == urldefrag(cur.links[idx]) IN
            /\ Len(todo') > Len(todo) =>
                  todo'[Len(todo')].depth =
                      (IF key.netloc = domain THEN cur.depth ELSE cur.depth + 1)
            /\ (/\ key \notin links
                /\ key.scheme \in ACCEPT_SCHEMES
                /\ key.netloc # domain
                /\ cur.depth > depth) =>
                  /\ todo' = todo
                  /\ \E e \in BagToSet(posted') \ BagToSet(posted) :
                        e.key = key /\ e.status = SKIPPED]_vars

\* C26 happens: a task one hop past max depth is being scanned under the
\* Follow policy, an external link of its page was reported Skipped and an
\* internal link of its page got a task of the same depth
C26_Witness ==
    /\ external = FOLLOW
    /\ cur.depth = depth + 1
    /\ \E e \in BagToSet(posted) :
          e.status = SKIPPED /\ e.source = cur.link /\ e.key.netloc # domain
    /\ \E i \in 1..Len(todo) :
          todo[i].source = cur.link /\ todo[i].depth = depth + 1

\* the tasks a Worker has taken from todo and not yet put on done
InFlight == Cardinality({w \in Workers : wtask[w] # NoTask})

\* C27: whenever the Scanner thread is about to test `self.pending > 0`,
\* the counter is the number of tasks in todo, plus those held by Workers,
\* plus those in done; it is never negative; and a step that changes it is
\* a step of the Scanner thread, not of a Worker or of the caller.
C27_PendingCountsTasks ==
    /\ [](opc = "poll" => pending = Len(todo) + InFlight + Len(done))
    /\ [](pending >= 0)
    /\ [][pending' # pending =>
            /\ opc \in {"process", "scan"}
            /\ wpc' = wpc /\ wtask' = wtask
            /\ npause' = npause /\ stopped' = stopped /\ mdone' = mdone]_vars

\* C27 happens: the loop condition is about to be tested, after a task
\* was drained, while one Worker holds a task and the other has put its
\* task on done
C27_Witness ==
    /\ opc = "poll"
    /\ TaskEvents # {}
    /\ InFlight = 1 /\ Len(done) = 1
    /\ pending = 2

\* C28: in an unstopped crawl no interleaving of the caller's pause() and
\* resume() with the threads' test of their pause signal and the wait that
\* follows makes the Scanner thread or a Worker thread terminate.
C28_NoThreadDiesOfPause ==
    ~stopped => opc # "dead" /\ \A w \in Workers : wpc[w] # "dead"

\* C29: the events of the first, stopped crawl do not touch the crawl
\* started after it: the first Scanner's Done event neither stops the
\* second Scanner nor marks the second crawl as done.
C29_EarlierDoneLeavesNewerCrawl ==
    newer.started => ~newer.stopped /\ ~mdone

====
